---- MODULE Spec2Model ----
(***************************************************************************)
(* A model of ssmem (src/third/SOFT/ssmem.cpp): a per-thread object        *)
(* allocator with epoch-based garbage collection.                          *)
(*                                                                         *)
(* Memory model.  A timestamp vector (ts_set) is a malloc'ed array of      *)
(* ssmem_ts_list_len words.  malloc does not initialise it, so a fresh     *)
(* vector holds arbitrary words (GarbageValues) until the walk of          *)
(* ssmem_ts_set_collect overwrites them.  The field len remembers the     *)
(* length the array was allocated with.  A read behind the end of the      *)
(* array (ssmem_ts_compare, once the registry has grown) yields a word     *)
(* that is arbitrary at each read; a write behind the end                  *)
(* (ssmem_ts_set_collect) damages the heap, and the run ends there.  So    *)
(* does a run that reads or writes a slot that has been given to free.     *)
(*                                                                         *)
(* Concurrency.  An allocator is used by its owning thread only; threads   *)
(* meet in the timestamp registry (ssmem_ts_list, ssmem_ts_list_len and    *)
(* the slots).  An operation is one step, except where it reads or writes  *)
(* the registry twice: registration (slot creation, CAS on the head,       *)
(* fetch-and-increment of the length) and the taking of a snapshot into a  *)
(* fresh vector (malloc with the current length, then the walk).           *)
(***************************************************************************)
EXTENDS Integers, Sequences, FiniteSets, TLC

\* ------------------------------------------------------------ bounds
MaxVersion == 2       \* a thread's version is bumped at most this often
MaxAllocs == 4        \* calls of ssmem_alloc, all allocators together
MaxArenaAllocs == 3   \* objects taken from the arenas, all allocators together
MaxReleases == 2      \* objects given to ssmem_release, all allocators together
MaxFsSize == 2        \* largest free-set capacity given to alloc_init_fs_size

Threads == {1, 2}
Allocs == {1, 2, 3}
\* the thread each allocator variable belongs to (allocator 1: thread 1;
\* allocators 2 and 3: thread 2)
Owner(a) == IF a = 1 THEN 1 ELSE 2

\* ------------------------------------------------- build configuration
\* (ssmem.h; sizes are in units of one object, scaled down)
SSMEM_DEFAULT_MEM_SIZE == 2
SSMEM_MEM_SIZE_MAX == 8
SSMEM_GC_FREE_SET_SIZE == 2
SSMEM_GC_RLSE_SET_SIZE == 3
TsIncrPolicies == {"NONE", "ALLOC", "FREE", "BOTH"}

InitSizes == {SSMEM_DEFAULT_MEM_SIZE}
\* sizes asked of ssmem_alloc: small, above the first chunk, above the cap, and
\* above twice the cap
AllocSizes == {1, 3, SSMEM_MEM_SIZE_MAX + 1, 2 * SSMEM_MEM_SIZE_MAX + 1}
FsSizes == 1..MaxFsSize
\* the id a thread passes to alloc_init: its number
ThreadId(t) == t - 1
GarbageValues == {0, MaxVersion + 1}

VARIABLES
  ssmem_ts_list,         \* the registry: threads whose slot is linked, head first
  ssmem_ts_list_len,
  ssmem_ts_local,        \* [thread -> has a slot]
  slot_id, slot_version, \* the slot of each thread
  slot_freed,            \* [thread -> its slot has been given to free]
  ssmem_num_allocators,  \* [thread -> count]
  ssmem_allocator_list,  \* [thread -> allocators, head first]
  IDPM, IDDRAM,
  SSMEM_TS_INCR_ON,      \* the build's increment policy
  SSMEM_MEM_SIZE_DOUBLE, \* the build's growth policy
  extraAllocs,           \* client: how far beyond MaxAllocs and MaxArenaAllocs this run goes
  alloc,                 \* [allocator -> its record]
  pc,                    \* [thread -> the operation it is in the middle of]
  aborted,               \* the run has ended: an assertion failed, or a write
                         \* went behind the end of a vector
  live,                  \* client: [allocator -> pointers it holds from alloc]
  allocUsed, arenaUsed, relUsed,  \* how much of the budgets is used
  \* history the claims are stated over
  freed,                 \* pointers given to free and not returned by alloc since
  unbumped,              \* <<p, t>>: t was registered when p was freed and has not bumped since
  sinceSnap,             \* [allocator -> registered threads that have not bumped since its last free-set snapshot]
  prevFree,              \* [allocator -> <<last pointer freed, the one before, and
                         \*   for each: all threads were registered at its free>>]
  rt,                    \* [allocator -> progress of an alloc-all / free-all / alloc-all round]
  needBump,              \* [allocator -> threads still to bump after its head free-set filled]
  justReclaimed,         \* [allocator -> -1, or what its last operation, a mem_reclaim, did (0: nothing)]
  lastOp                 \* what the last completed operation did

regVars == <<ssmem_ts_list, ssmem_ts_list_len, ssmem_ts_local, slot_id, slot_freed, slot_version,
             ssmem_num_allocators, ssmem_allocator_list, IDPM, IDDRAM>>
cfgVars == <<SSMEM_TS_INCR_ON, SSMEM_MEM_SIZE_DOUBLE, extraAllocs>>
histVars == <<freed, unbumped, sinceSnap, prevFree, rt, needBump, justReclaimed, lastOp>>
vars == <<regVars, cfgVars, alloc, pc, aborted, live, allocUsed, arenaUsed, relUsed, histVars>>

\* ------------------------------------------------------------ values
NoPtr == <<0, 0, 0>>
NullTs == [null |-> TRUE, len |-> 0, v |-> <<>>]
NullAlloc == [init |-> FALSE]
Idle == [op |-> "idle", a |-> 0, size |-> 0, fs |-> 0, lazy |-> FALSE, asize |-> 0,
         obj |-> NoPtr, ts_set |-> NullTs, next |-> <<>>]
NoVersions == [t \in Threads |-> -1]
NoOp == [op |-> "none", t |-> 0, a |-> 0, reused |-> FALSE, quiesced |-> FALSE,
         dup |-> FALSE, foundFull |-> FALSE, madeFull |-> FALSE, ranReclaim |-> FALSE,
         snapTaken |-> FALSE, firstFree |-> FALSE, gced |-> 0, someSame |-> FALSE,
         listsChanged |-> FALSE, changed |-> FALSE, second |-> FALSE,
         afterEffective |-> FALSE,
         wellFormed |-> FALSE, quietSinceFree |-> FALSE, quietSinceSnap |-> FALSE,
         hasPrev1 |-> FALSE, hasPrev2 |-> FALSE, prev1Collected |-> FALSE,
         prev2Collected |-> FALSE, prev1Registered |-> FALSE,
         prev2Registered |-> FALSE, didInit |-> FALSE,
         fs_size |-> 0, size |-> 0,
         relNewer |-> FALSE, relCut |-> FALSE, relSame |-> FALSE,
         fromCollected |-> FALSE, popLast |-> FALSE, popFrame |-> FALSE,
         popEmptied |-> FALSE, popUnlinked |-> FALSE, popKept |-> FALSE,
         snapped |-> FALSE, snapAll |-> FALSE, readBehind |-> FALSE]
RtOff == [ph |-> 3, first |-> {}, second |-> {}]
RtStart == [ph |-> 0, first |-> {}, second |-> {}]

\* threads whose registration is complete (slot linked, length incremented)
Registered == {t \in Threads : ssmem_ts_local[t] /\ pc[t].op \notin {"init_cas", "init_fai"}}
\* the versions of the registered threads now (-1: not registered)
CurrentVersions == [t \in Threads |-> IF t \in Registered THEN slot_version[t] ELSE -1]

\* ------------------------------------------------- timestamp vectors
\* malloc(ssmem_ts_list_len * sizeof(size_t)): the length is remembered; the
\* words it holds are arbitrary, and are looked at first by the walk (WithWords)
TsSetMalloc ==
  [null |-> FALSE, len |-> ssmem_ts_list_len, v |-> [i \in 1..ssmem_ts_list_len |-> 0]]
FreshWords(ts_set) == [1..ts_set.len -> GarbageValues]
WithWords(ts_set, words) == [ts_set EXCEPT !.v = words]

\* the walk of ssmem_ts_set_collect from list position i: it stops at the first
\* slot whose id is not below the registry length
RECURSIVE CollectFrom(_, _)
CollectFrom(v, i) ==
  IF i > Len(ssmem_ts_list) THEN v
  ELSE LET cur == ssmem_ts_list[i] IN
       IF slot_id[cur] < ssmem_ts_list_len
       THEN CollectFrom(IF slot_id[cur] < Len(v)
                        THEN [v EXCEPT ![slot_id[cur] + 1] = slot_version[cur]]
                        ELSE v, i + 1)
       ELSE v

\* the ids the walk writes at
RECURSIVE WalkedIds(_)
WalkedIds(i) ==
  IF i > Len(ssmem_ts_list) THEN {}
  ELSE LET cur == ssmem_ts_list[i] IN
       IF slot_id[cur] < ssmem_ts_list_len THEN {slot_id[cur]} \cup WalkedIds(i + 1) ELSE {}

\* the ids of the slots of the registry that are below the registry length
RecordableIds ==
  {slot_id[ssmem_ts_list[i]] : i \in {k \in 1..Len(ssmem_ts_list) :
                                        slot_id[ssmem_ts_list[k]] < ssmem_ts_list_len}}

\* the slots the walk reads: up to and with the one it stops at
RECURSIVE VisitedSlots(_)
VisitedSlots(i) ==
  IF i > Len(ssmem_ts_list) THEN {}
  ELSE LET cur == ssmem_ts_list[i] IN
       {cur} \cup (IF slot_id[cur] < ssmem_ts_list_len THEN VisitedSlots(i + 1) ELSE {})
\* the walk reads a slot that has been given to free
WalkReadsFreed == \E t \in VisitedSlots(1) : slot_freed[t]

\* the walk writes behind the end of the vector
WritesBehindEnd(ts_set) == \E id \in WalkedIds(1) : id >= ts_set.len

\* ssmem_ts_set_collect on a vector that exists (the malloc of a missing one
\* is the step before, TsSetMalloc)
ssmem_ts_set_collect(ts_set) == [ts_set EXCEPT !.v = CollectFrom(ts_set.v, 1)]

\* ssmem_ts_compare asking for more than one bump of every thread
ssmem_ts_compare_ByTwo(s_new, s_old, behind) ==
  \A i \in 0..(ssmem_ts_list_len - 1) :
    IF i < s_new.len /\ i < s_old.len THEN s_new.v[i + 1] > s_old.v[i + 1] + 1 ELSE behind

\* > 0 iff s_new is > s_old for each entry below the registry length; behind:
\* what the comparison of the words behind the end of a vector comes to
ssmem_ts_compare(s_new, s_old, behind) ==
  \A i \in 0..(ssmem_ts_list_len - 1) :
    IF i < s_new.len /\ i < s_old.len THEN s_new.v[i + 1] > s_old.v[i + 1] ELSE behind

\* the loop of ssmem_ts_compare reads s_old at an index that is not below the
\* length s_old was malloc'ed with, s_new being the longer vector: the entries
\* before that index are there in both and larger in s_new
ReadsOldBehindEnd(s_new, s_old) ==
  /\ s_old.len < s_new.len
  /\ \E i \in 0..(ssmem_ts_list_len - 1) :
       /\ i >= s_old.len
       /\ \A j \in 0..(i - 1) :
            j < s_old.len /\ j < s_new.len /\ s_new.v[j + 1] > s_old.v[j + 1]

\* ------------------------------------------------------- free-sets
\* gv is history: the versions of the registered threads when ts_set was collected
ssmem_free_set_new(size) ==
  [size |-> size, curr |-> 0, set |-> [i \in 1..size |-> NoPtr], ts_set |-> NullTs,
   gv |-> NoVersions]

\* a container for the new head: the head of the available list when there is
\* one (fill reset, buffer and ts_set kept), a new one otherwise
ssmem_free_set_get_avail(r) ==
  IF r.available_set_list # <<>>
  THEN [a |-> [r EXCEPT !.available_set_list = Tail(@)],
        fs |-> [Head(r.available_set_list) EXCEPT !.curr = 0]]
  ELSE [a |-> r, fs |-> ssmem_free_set_new(r.fs_size)]

\* ssmem_free_set_make_avail that drops the container
ssmem_free_set_make_avail_Drop(r, set) == r

ssmem_free_set_make_avail(r, set) ==
  [r EXCEPT !.available_set_list = <<[set EXCEPT !.curr = 0]>> \o @]

\* the pointers at the filled positions of a list of sets
FilledOf(fs) == {fs.set[i] : i \in 1..fs.curr}
FilledIn(list) == UNION {FilledOf(list[k]) : k \in 1..Len(list)}
\* the number of filled positions of a list of sets
RECURSIVE FilledCount(_)
FilledCount(list) ==
  IF list = <<>> THEN 0 ELSE Head(list).curr + FilledCount(Tail(list))

\* what the comparisons of a pass on allocator record r, with ts_set the vector
\* of the snapshot at hand, can come to where they read behind the end of a
\* vector (for the released records, for the free-sets): either way when some
\* vector is shorter than the registry, and no matter otherwise
OutcomesBehindEnd(r, ts_set) ==
  LET all == {ts_set} \cup {r.free_set_list[k].ts_set : k \in 1..Len(r.free_set_list)}
                      \cup {r.released_mem_list[k].ts_set : k \in 1..Len(r.released_mem_list)}
  IN IF \E s \in all : ~s.null /\ s.len < ssmem_ts_list_len
     THEN BOOLEAN \X BOOLEAN
     ELSE {<<TRUE, TRUE>>}

\* ------------------------------------------------------ reclamation
\* ReclaimReleased that takes one off the count and leaves the list uncut
ReclaimReleased_NoCut(r, behind) ==
  IF r.released_num > 0
  THEN LET rel == r.released_mem_list IN
       IF Len(rel) >= 2 /\ ssmem_ts_compare(rel[1].ts_set, rel[2].ts_set, behind)
       THEN [r EXCEPT !.released_num = @ - 1]
       ELSE r
  ELSE r

\* the released records: when the head's snapshot is newer than its successor's,
\* everything behind the head is freed
ReclaimReleased(r, behind) ==
  IF r.released_num > 0
  THEN LET rel == r.released_mem_list IN
       IF Len(rel) >= 2 /\ ssmem_ts_compare(rel[1].ts_set, rel[2].ts_set, behind)
       THEN [r EXCEPT !.released_mem_list = <<rel[1]>>, !.released_num = 1]
       ELSE r
  ELSE r

\* ReclaimFreeSets without the addition to collected_set_num
ReclaimFreeSets_NoCount(r, behind) ==
  LET fl == r.free_set_list
      fs_cur == fl[1]
  IN IF fs_cur.ts_set.null THEN [a |-> r, gced |-> 0]
     ELSE IF Len(fl) < 2 THEN [a |-> r, gced |-> 0]
     ELSE IF fl[2].ts_set.null THEN [a |-> r, gced |-> 0]
     ELSE IF ssmem_ts_compare(fs_cur.ts_set, fl[2].ts_set, behind)
          THEN [a |-> [r EXCEPT !.free_set_list = <<fs_cur>>,
                                !.free_set_num = 1,
                                !.collected_set_list = @ \o Tail(fl)],
                gced |-> r.free_set_num - 1]
          ELSE [a |-> r, gced |-> 0]

\* the free-sets: when the head's snapshot is newer than its successor's, the
\* sets behind the head move to the tail of the collected list
ReclaimFreeSets(r, behind) ==
  LET fl == r.free_set_list
      fs_cur == fl[1]
  IN IF fs_cur.ts_set.null THEN [a |-> r, gced |-> 0]
     ELSE IF Len(fl) < 2 THEN [a |-> r, gced |-> 0]
     ELSE IF fl[2].ts_set.null THEN [a |-> r, gced |-> 0]
     ELSE IF ssmem_ts_compare(fs_cur.ts_set, fl[2].ts_set, behind)
          THEN LET gced_num == r.free_set_num - 1 IN
               [a |-> [r EXCEPT !.free_set_list = <<fs_cur>>,
                                !.free_set_num = 1,
                                !.collected_set_list = @ \o Tail(fl),
                                !.collected_set_num = @ + gced_num],
                gced |-> gced_num]
          ELSE [a |-> r, gced |-> 0]

ssmem_mem_reclaim(r, behind) == ReclaimFreeSets(ReclaimReleased(r, behind[1]), behind[2])

\* a pass on allocator record r compares a snapshot with an older one that was
\* taken with a smaller registry length, and reads behind the end of the older
PassReadsBehind(r) ==
  LET rel == r.released_mem_list
      fl == r.free_set_list
  IN \/ /\ r.released_num > 0
        /\ Len(rel) >= 2
        /\ ReadsOldBehindEnd(rel[1].ts_set, rel[2].ts_set)
     \/ /\ Len(fl) >= 2
        /\ ~fl[1].ts_set.null
        /\ ~fl[2].ts_set.null
        /\ ReadsOldBehindEnd(fl[1].ts_set, fl[2].ts_set)

\* ------------------------------------------------------------ alloc
\* the size of the next chunk (0: the assertion on SSMEM_MEM_SIZE_MAX fails)
RECURSIVE GrowUntil(_, _)
GrowUntil(mem_size, size) ==
  IF mem_size < size
  THEN IF mem_size > SSMEM_MEM_SIZE_MAX THEN 0 ELSE GrowUntil(mem_size * 2, size)
  ELSE mem_size

NextChunkSize(mem_size, size) ==
  LET doubled == IF SSMEM_MEM_SIZE_DOUBLE = 1
                 THEN (IF mem_size * 2 > SSMEM_MEM_SIZE_MAX THEN SSMEM_MEM_SIZE_MAX
                       ELSE mem_size * 2)
                 ELSE mem_size
  IN IF size > doubled THEN GrowUntil(doubled, size) ELSE doubled

\* CollectedPop that leaves the pointer it returns in the set
CollectedPop_NoDecrement(r) ==
  LET cs == Head(r.collected_set_list)
  IN [a |-> r, m |-> cs.set[cs.curr], abort |-> FALSE]

\* 1st: from the collected memory, the last filled pointer of the head set
CollectedPop(r) ==
  LET cs == Head(r.collected_set_list)
      curr == cs.curr - 1
      m == cs.set[curr + 1]
      cs1 == [cs EXCEPT !.curr = curr]
  IN IF curr <= 0
     THEN [a |-> ssmem_free_set_make_avail(
                   [r EXCEPT !.collected_set_list = Tail(@), !.collected_set_num = @ - 1],
                   cs1),
           m |-> m, abort |-> FALSE]
     ELSE [a |-> [r EXCEPT !.collected_set_list[1] = cs1], m |-> m, abort |-> FALSE]

\* ArenaBump without the advance of mem_curr in the current chunk
ArenaBump_NoAdvance(r, size) ==
  IF r.mem_curr + size >= r.mem_size
  THEN LET ms == NextChunkSize(r.mem_size, size)
           mem == <<r.mem[1], Len(r.mem_chunks) + 1>>
       IN IF ms = 0 THEN [a |-> r, m |-> NoPtr, abort |-> TRUE]
          ELSE [a |-> [r EXCEPT !.mem_size = ms, !.mem = mem, !.mem_curr = size,
                                !.tot_size = @ + ms,
                                !.mem_chunks = <<[obj |-> mem, size |-> ms]>> \o @],
                m |-> <<mem[1], mem[2], 0>>, abort |-> FALSE]
  ELSE [a |-> r, m |-> <<r.mem[1], r.mem[2], r.mem_curr>>, abort |-> FALSE]

\* ArenaBump that leaves tot_size as it is when it takes a new chunk
ArenaBump_NoTotal(r, size) ==
  IF r.mem_curr + size >= r.mem_size
  THEN LET ms == NextChunkSize(r.mem_size, size)
           mem == <<r.mem[1], Len(r.mem_chunks) + 1>>
       IN IF ms = 0 THEN [a |-> r, m |-> NoPtr, abort |-> TRUE]
          ELSE [a |-> [r EXCEPT !.mem_size = ms, !.mem = mem, !.mem_curr = size,
                                !.mem_chunks = <<[obj |-> mem, size |-> ms]>> \o @],
                m |-> <<mem[1], mem[2], 0>>, abort |-> FALSE]
  ELSE [a |-> [r EXCEPT !.mem_curr = @ + size],
        m |-> <<r.mem[1], r.mem[2], r.mem_curr>>, abort |-> FALSE]

\* otherwise from the arena, taking a new chunk when the current one is used up
ArenaBump(r, size) ==
  IF r.mem_curr + size >= r.mem_size
  THEN LET ms == NextChunkSize(r.mem_size, size)
           mem == <<r.mem[1], Len(r.mem_chunks) + 1>>
       IN IF ms = 0 THEN [a |-> r, m |-> NoPtr, abort |-> TRUE]
          ELSE [a |-> [r EXCEPT !.mem_size = ms, !.mem = mem, !.mem_curr = size,
                                !.tot_size = @ + ms,
                                !.mem_chunks = <<[obj |-> mem, size |-> ms]>> \o @],
                m |-> <<mem[1], mem[2], 0>>, abort |-> FALSE]
  ELSE [a |-> [r EXCEPT !.mem_curr = @ + size],
        m |-> <<r.mem[1], r.mem[2], r.mem_curr>>, abort |-> FALSE]

\* from r1 to r2 the arena and the free-set list are as they were
PopFrame(r1, r2) ==
  /\ r2.mem = r1.mem
  /\ r2.mem_curr = r1.mem_curr
  /\ r2.mem_size = r1.mem_size
  /\ r2.tot_size = r1.tot_size
  /\ r2.mem_chunks = r1.mem_chunks
  /\ r2.free_set_list = r1.free_set_list
  /\ r2.free_set_num = r1.free_set_num
\* from r1 to r2 the head collected set has left the collected list, one off
\* its count, for the head of the available list
PopUnlinked(r1, r2) ==
  LET cs == Head(r1.collected_set_list) IN
  /\ r2.collected_set_list = Tail(r1.collected_set_list)
  /\ r2.collected_set_num = r1.collected_set_num - 1
  /\ r2.available_set_list = <<[cs EXCEPT !.curr = 0]>> \o r1.available_set_list
\* from r1 to r2 the head collected set has stayed, one pointer shorter
PopKept(r1, r2) ==
  LET cs == Head(r1.collected_set_list) IN
  /\ r2.collected_set_list = <<[cs EXCEPT !.curr = @ - 1]>> \o Tail(r1.collected_set_list)
  /\ r2.collected_set_num = r1.collected_set_num
  /\ r2.available_set_list = r1.available_set_list

\* ssmem_alloc that also hands out what the head free-set holds
ssmem_alloc_FromFreeSet(r, size) ==
  LET fs == Head(r.free_set_list) IN
  IF r.collected_set_list # <<>> THEN CollectedPop(r)
  ELSE IF fs.curr > 0
       THEN [a |-> [r EXCEPT !.free_set_list[1].curr = @ - 1], m |-> fs.set[fs.curr],
             abort |-> FALSE]
       ELSE ArenaBump(r, size)

\* ssmem_alloc once the allocator exists, up to the bump of the version
ssmem_alloc(r, size) ==
  IF r.collected_set_list # <<>> THEN CollectedPop(r) ELSE ArenaBump(r, size)

\* ------------------------------------------------------------- free
\* full once the next push is in
FreeSetFull_AfterPush(fs) == fs.curr + 1 = fs.size

\* the test of ssmem_free on the head set, before the push
FreeSetFull(fs) == fs.curr = fs.size

FreeSetPush(r, obj) ==
  [r EXCEPT !.free_set_list[1] =
     [@ EXCEPT !.set[r.free_set_list[1].curr + 1] = obj, !.curr = @ + 1]]

\* ssmem_free with the vector the snapshot goes into (the head's own, or the
\* one malloc'ed the step before); ran: the head was found full
ssmem_free(r, obj, ts_set, behind) ==
  LET fs == Head(r.free_set_list) IN
  IF FreeSetFull(fs)
  THEN LET snapped == [r EXCEPT !.free_set_list[1] =
                         [@ EXCEPT !.ts_set = ssmem_ts_set_collect(ts_set),
                                   !.gv = CurrentVersions]]
           rec == ssmem_mem_reclaim(snapped, behind)
           got == ssmem_free_set_get_avail(rec.a)
           linked == [got.a EXCEPT !.free_set_list = <<got.fs>> \o @,
                                   !.free_set_num = @ + 1]
       IN [a |-> FreeSetPush(linked, obj), ran |-> TRUE, gced |-> rec.gced,
           before |-> snapped, after |-> rec.a]
  ELSE [a |-> FreeSetPush(r, obj), ran |-> FALSE, gced |-> 0, before |-> r, after |-> r]

\* ---------------------------------------------------------- release
\* gv is history: the versions of the registered threads when ts_set was collected
ssmem_release(r, obj, ts_set, behind) ==
  LET rel == [mem |-> obj, ts_set |-> ssmem_ts_set_collect(ts_set), gv |-> CurrentVersions]
      rn == r.released_num + 1
      r1 == [r EXCEPT !.released_num = rn, !.released_mem_list = <<rel>> \o @]
  IN IF rn >= SSMEM_GC_RLSE_SET_SIZE
     THEN LET rec == ssmem_mem_reclaim(r1, behind) IN
          [a |-> rec.a, ran |-> TRUE, gced |-> rec.gced, before |-> r1]
     ELSE [a |-> r1, ran |-> FALSE, gced |-> 0, before |-> r1]

\* ------------------------------------------------------------- init
\* what ssmem_alloc_init_fs_size leaves in the allocator
NewAllocator(a, t, size, fs) ==
  [init |-> TRUE, mem |-> <<a, 1>>, mem_curr |-> 0, mem_size |-> size, tot_size |-> size,
   fs_size |-> fs, mem_chunks |-> <<[obj |-> <<a, 1>>, size |-> size]>>, ts |-> t,
   free_set_list |-> <<ssmem_free_set_new(fs)>>, free_set_num |-> 1,
   collected_set_list |-> <<>>, collected_set_num |-> 0,
   available_set_list |-> <<>>,
   released_mem_list |-> <<>>, released_num |-> 0]

\* ------------------------------------------------------------ state
InitWith(doubles, policies, rt0, extra) ==
  /\ ssmem_ts_list = <<>>
  /\ ssmem_ts_list_len = 0
  /\ ssmem_ts_local = [t \in Threads |-> FALSE]
  /\ slot_id = [t \in Threads |-> 0]
  /\ slot_version = [t \in Threads |-> 0]
  /\ slot_freed = [t \in Threads |-> FALSE]
  /\ ssmem_num_allocators = [t \in Threads |-> 0]
  /\ ssmem_allocator_list = [t \in Threads |-> <<>>]
  /\ IDPM = 0
  /\ IDDRAM = 0
  /\ SSMEM_TS_INCR_ON \in policies
  /\ SSMEM_MEM_SIZE_DOUBLE \in doubles
  /\ extraAllocs = extra
  /\ alloc = [a \in Allocs |-> NullAlloc]
  /\ pc = [t \in Threads |-> Idle]
  /\ aborted = FALSE
  /\ live = [a \in Allocs |-> {}]
  /\ allocUsed = 0
  /\ arenaUsed = 0
  /\ relUsed = 0
  /\ freed = {}
  /\ unbumped = {}
  /\ sinceSnap = [a \in Allocs |-> {}]
  /\ prevFree = [a \in Allocs |-> <<NoPtr, NoPtr, FALSE, FALSE>>]
  /\ rt = [a \in Allocs |-> rt0]
  /\ needBump = [a \in Allocs |-> {}]
  /\ justReclaimed = [a \in Allocs |-> -1]
  /\ lastOp = NoOp

BumpsOnAlloc == SSMEM_TS_INCR_ON \in {"ALLOC", "BOTH"}
BumpsOnFree == SSMEM_TS_INCR_ON \in {"FREE", "BOTH"}

\* a bump that goes to the slots of all threads
VersionAfter_All(t, bump) ==
  IF bump THEN [u \in Threads |-> slot_version[u] + 1] ELSE slot_version

\* ssmem_ts_next by thread t, when bump holds
VersionAfter(t, bump) ==
  IF bump THEN [slot_version EXCEPT ![t] = @ + 1] ELSE slot_version
Without(S, t, bump) == IF bump THEN S \ {t} ELSE S

\* the registry holds the slots of the threads that have one, ids 0..len-1:
\* nothing is in flight
RegistryDense ==
  /\ Registered = {t \in Threads : ssmem_ts_local[t]}
  /\ Len(ssmem_ts_list) = ssmem_ts_list_len
  /\ {slot_id[ssmem_ts_list[i]] : i \in 1..Len(ssmem_ts_list)} = 0..(ssmem_ts_list_len - 1)
\* ... and every snapshot of allocator record r was taken into a vector of that length
WellFormed(r) ==
  /\ RegistryDense
  /\ \A k \in 1..Len(r.free_set_list) :
       r.free_set_list[k].ts_set.null \/ r.free_set_list[k].ts_set.len = ssmem_ts_list_len
\* some registered thread had the same version at the snapshots of the head
\* free-set and of its successor
SomeSame(r) ==
  LET fl == r.free_set_list IN
  /\ Len(fl) >= 2
  /\ ~fl[1].ts_set.null
  /\ ~fl[2].ts_set.null
  /\ \E t \in Threads : fl[1].gv[t] >= 0 /\ fl[2].gv[t] = fl[1].gv[t]
\* every registered thread had a larger version at the snapshot of the head
\* released record than at the snapshot of its successor
RelNewer(r) ==
  LET rel == r.released_mem_list IN
  /\ Len(rel) >= 2
  /\ \A t \in Registered : rel[1].gv[t] > rel[2].gv[t]
\* from r1 to r2 the records behind the head are gone, and the count is 1
RelCut(r1, r2) ==
  /\ r1.released_mem_list # <<>>
  /\ r2.released_mem_list = <<Head(r1.released_mem_list)>>
  /\ r2.released_num = 1
RelSame(r1, r2) ==
  /\ r2.released_mem_list = r1.released_mem_list
  /\ r2.released_num = r1.released_num
ListsDiffer(r1, r2) ==
  \/ r1.free_set_list # r2.free_set_list
  \/ r1.collected_set_list # r2.collected_set_list

\* ------------------------------------------------------------ steps
\* the body of ssmem_alloc on allocator record r (initialised), with its
\* bump, by thread t
DoAlloc(t, a, r, size, didInit) ==
  LET res == ssmem_alloc(r, size)
      bump == BumpsOnAlloc
      m == res.m
      x == rt[a]
      popped == r.collected_set_list # <<>>
  IN /\ allocUsed < MaxAllocs + extraAllocs
     /\ (r.collected_set_list = <<>>) => arenaUsed < MaxArenaAllocs + extraAllocs
     /\ bump => slot_version[t] < MaxVersion
     /\ IF res.abort \/ (bump /\ slot_freed[t])
        THEN /\ aborted' = TRUE
             /\ alloc' = [alloc EXCEPT ![a] = r]
             /\ lastOp' = [NoOp EXCEPT !.op = IF res.abort THEN "abort" ELSE "freed_slot",
                             !.t = t, !.a = a, !.didInit = didInit,
                             !.size = size]
             /\ UNCHANGED <<live, allocUsed, arenaUsed, slot_version, freed, unbumped, sinceSnap,
                            prevFree, rt, needBump, justReclaimed>>
        ELSE /\ aborted' = aborted
             /\ alloc' = [alloc EXCEPT ![a] = res.a]
             /\ live' = [live EXCEPT ![a] = @ \cup {m}]
             /\ allocUsed' = allocUsed + 1
             /\ arenaUsed' = IF r.collected_set_list = <<>> THEN arenaUsed + 1 ELSE arenaUsed
             /\ slot_version' = VersionAfter(t, bump)
             /\ freed' = freed \ {m}
             /\ unbumped' = {pr \in unbumped : pr[1] # m /\ (bump => pr[2] # t)}
             /\ sinceSnap' = [b \in Allocs |-> Without(sinceSnap[b], t, bump)]
             /\ needBump' = [b \in Allocs |-> Without(needBump[b], t, bump)]
             /\ prevFree' = prevFree
             /\ justReclaimed' = [justReclaimed EXCEPT ![a] = -1]
             /\ rt' = [rt EXCEPT ![a] =
                  CASE x.ph = 0 -> [x EXCEPT !.first = @ \cup {m}]
                    [] x.ph = 1 -> IF live[a] = {} /\ needBump[a] = {}
                                   THEN [x EXCEPT !.ph = 2, !.second = {m}]
                                   ELSE RtOff
                    [] x.ph = 2 -> IF Cardinality(x.second) < Cardinality(x.first)
                                   THEN [x EXCEPT !.second = @ \cup {m}]
                                   ELSE RtOff
                    [] OTHER -> RtOff]
             /\ lastOp' = [NoOp EXCEPT !.op = "alloc", !.t = t, !.a = a,
                             !.reused = (m \in freed),
                             !.quiesced = ({u \in Threads : <<m, u>> \in unbumped} = {}),
                             !.dup = (m \in live[a]),
                             !.didInit = didInit, !.fs_size = r.fs_size, !.size = size,
                             !.fromCollected = popped,
                             !.popLast = (popped /\ m = Head(r.collected_set_list).set[
                                                         Head(r.collected_set_list).curr]),
                             !.popFrame = PopFrame(r, res.a),
                             !.popEmptied = (popped /\ Head(r.collected_set_list).curr = 1),
                             !.popUnlinked = (popped /\ PopUnlinked(r, res.a)),
                             !.popKept = (popped /\ PopKept(r, res.a))]

\* the body of ssmem_free on allocator a, with its bump, by thread t
DoFree(t, a, obj, ts_set) ==
  \E behind \in OutcomesBehindEnd(alloc[a], ts_set) :
  LET r == alloc[a]
      res == ssmem_free(r, obj, ts_set, behind)
      bump == BumpsOnFree
      head == Head(r.free_set_list)
      posthead == Head(res.a.free_set_list)
      madeFull == posthead.curr = posthead.size
      x == rt[a]
  IN /\ bump => slot_version[t] < MaxVersion
     /\ IF \/ FreeSetFull(head) /\ (WritesBehindEnd(ts_set) \/ WalkReadsFreed)
           \/ bump /\ slot_freed[t]
        THEN /\ aborted' = TRUE
             /\ lastOp' = [NoOp EXCEPT !.op = IF FreeSetFull(head) /\ WritesBehindEnd(ts_set)
                                              THEN "behind_end" ELSE "freed_slot",
                             !.t = t, !.a = a]
             /\ UNCHANGED <<alloc, live, slot_version, freed, unbumped, sinceSnap, needBump,
                            prevFree, justReclaimed, rt>>
        ELSE /\ aborted' = aborted
             /\ alloc' = [alloc EXCEPT ![a] = res.a]
             /\ live' = [live EXCEPT ![a] = @ \ {obj}]
             /\ slot_version' = VersionAfter(t, bump)
             /\ freed' = freed \cup {obj}
             /\ unbumped' = {pr \in unbumped \cup {<<obj, u>> : u \in Registered} : bump => pr[2] # t}
             /\ sinceSnap' = [b \in Allocs |->
                  Without(IF b = a /\ res.ran THEN Registered ELSE sinceSnap[b], t, bump)]
             /\ needBump' = [b \in Allocs |->
                  Without(IF b = a /\ madeFull THEN Registered ELSE needBump[b], t, bump)]
             /\ prevFree' = [prevFree EXCEPT ![a] =
                               <<obj, prevFree[a][1], RegistryDense /\ Registered = Threads,
                         prevFree[a][3]>>]
             /\ justReclaimed' = [justReclaimed EXCEPT ![a] = -1]
             /\ rt' = [rt EXCEPT ![a] =
                  CASE x.ph = 0 -> [x EXCEPT !.ph = 1]
                    [] x.ph = 1 -> IF needBump[a] = {} THEN x ELSE RtOff
                    [] OTHER -> RtOff]
             /\ lastOp' = [NoOp EXCEPT !.op = "free", !.t = t, !.a = a,
                             !.foundFull = (head.curr = head.size),
                             !.madeFull = madeFull,
                             !.ranReclaim = res.ran,
                             !.snapTaken = IF res.ran THEN ~res.before.free_set_list[1].ts_set.null
                                           ELSE posthead.ts_set # head.ts_set,
                             !.firstFree = (prevFree[a][1] = NoPtr),
                             !.gced = res.gced,
                             !.someSame = (res.ran /\ SomeSame(res.before)),
                             !.listsChanged = ListsDiffer(res.before, res.after),
                             !.wellFormed = WellFormed(r),
                             !.quietSinceFree = ({u \in Threads : <<prevFree[a][1], u>> \in unbumped} = {}),
                             !.quietSinceSnap = (sinceSnap[a] = {}),
                             !.hasPrev1 = (prevFree[a][1] # NoPtr),
                             !.hasPrev2 = (prevFree[a][2] # NoPtr),
                             !.prev1Collected = (prevFree[a][1] \in FilledIn(res.a.collected_set_list)),
                             !.prev2Collected = (prevFree[a][2] \in FilledIn(res.a.collected_set_list)),
                             !.prev1Registered = prevFree[a][3],
                             !.prev2Registered = prevFree[a][4],
                             !.fs_size = r.fs_size,
                             !.relNewer = RelNewer(res.before),
                             !.relCut = RelCut(res.before, res.after),
                             !.relSame = RelSame(res.before, res.after),
                             !.snapped = res.ran,
                             !.snapAll = (WalkedIds(1) = RecordableIds),
                             !.readBehind = (res.ran /\ PassReadsBehind(res.before))]
     /\ UNCHANGED <<allocUsed, arenaUsed>>

CanAct(t) == ~aborted /\ pc[t].op = "idle"

\* ssmem_alloc_init_fs_size up to the slot's creation in ssmem_gc_thread_init;
\* for a thread that has its slot, the whole of it (and of the ssmem_alloc
\* that called it, when lazy)
InitStart(t, a, size, fs, id, lazy, asize) ==
  /\ ssmem_num_allocators' = [ssmem_num_allocators EXCEPT ![t] = @ + 1]
  /\ ssmem_allocator_list' = [ssmem_allocator_list EXCEPT ![t] = <<a>> \o @]
  /\ UNCHANGED <<ssmem_ts_list, ssmem_ts_list_len, slot_freed, cfgVars, relUsed>>
  /\ IF ssmem_ts_local[t]
     THEN /\ UNCHANGED <<ssmem_ts_local, slot_id, pc>>
          /\ IF lazy
             THEN DoAlloc(t, a, NewAllocator(a, t, size, fs), asize, TRUE)
             ELSE /\ alloc' = [alloc EXCEPT ![a] = NewAllocator(a, t, size, fs)]
                  /\ lastOp' = [NoOp EXCEPT !.op = "init", !.t = t, !.a = a, !.didInit = TRUE]
                  /\ UNCHANGED <<slot_version, aborted, live, allocUsed, arenaUsed, freed, unbumped,
                                 sinceSnap, prevFree, rt, needBump, justReclaimed>>
     ELSE /\ ssmem_ts_local' = [ssmem_ts_local EXCEPT ![t] = TRUE]
          /\ slot_id' = [slot_id EXCEPT ![t] = id]
          /\ slot_version' = [slot_version EXCEPT ![t] = 0]
          /\ pc' = [pc EXCEPT ![t] = [Idle EXCEPT !.op = "init_cas", !.a = a, !.size = size,
                                        !.fs = fs, !.lazy = lazy, !.asize = asize,
                                        !.next = ssmem_ts_list]]
          /\ lastOp' = [NoOp EXCEPT !.op = "step", !.t = t, !.a = a]
          /\ UNCHANGED <<alloc, aborted, live, allocUsed, arenaUsed, freed, unbumped, sinceSnap,
                         prevFree, rt, needBump, justReclaimed>>

\* ssmem_alloc_init_fs_size / ssmem_alloc_init called by the client
AllocInit(t, a, fsSizes) ==
  /\ CanAct(t)
  /\ Owner(a) = t
  /\ ~alloc[a].init
  /\ \E size \in InitSizes, fs \in fsSizes :
       InitStart(t, a, size, fs, ThreadId(t), FALSE, 0)
  /\ UNCHANGED <<IDPM, IDDRAM>>

\* the same by a thread that has its slot already: a further allocator
AllocInitFurther(t, a, fsSizes) ==
  /\ ssmem_ts_local[t]
  /\ AllocInit(t, a, fsSizes)

\* a compare-and-swap that swaps without comparing
CAS_U64_Blind(list, expected) == TRUE

\* the compare-and-swap on the head of the registry succeeds when the head is
\* still the one that was read into a->ts->next
CAS_U64(list, expected) == list = expected

\* one round of the loop that links the slot at the head of the registry: the
\* CAS, and after a failed one the head is read again
InitCAS(t) ==
  /\ ~aborted
  /\ pc[t].op = "init_cas"
  /\ IF CAS_U64(ssmem_ts_list, pc[t].next)
     THEN /\ ssmem_ts_list' = <<t>> \o pc[t].next
          /\ pc' = [pc EXCEPT ![t] = [@ EXCEPT !.op = "init_fai", !.next = <<>>]]
     ELSE /\ ssmem_ts_list' = ssmem_ts_list
          /\ pc' = [pc EXCEPT ![t] = [@ EXCEPT !.next = ssmem_ts_list]]
  /\ lastOp' = [NoOp EXCEPT !.op = "step", !.t = t, !.a = pc[t].a]
  /\ UNCHANGED <<ssmem_ts_list_len, ssmem_ts_local, slot_id, slot_freed, slot_version,
                 ssmem_num_allocators, ssmem_allocator_list, IDPM, IDDRAM, cfgVars, alloc,
                 aborted, live, allocUsed, arenaUsed, relUsed, freed, unbumped, sinceSnap, prevFree, rt,
                 needBump, justReclaimed>>

\* the fetch-and-increment of the length, and the rest of the initialisation
InitFAI(t) ==
  /\ ~aborted
  /\ pc[t].op = "init_fai"
  /\ ssmem_ts_list_len' = ssmem_ts_list_len + 1
  /\ pc' = [pc EXCEPT ![t] = Idle]
  /\ UNCHANGED <<ssmem_ts_list, ssmem_ts_local, slot_id, slot_freed, ssmem_num_allocators,
                 ssmem_allocator_list, IDPM, IDDRAM, cfgVars, relUsed>>
  /\ LET p == pc[t] IN
     IF p.lazy
     THEN DoAlloc(t, p.a, NewAllocator(p.a, t, p.size, p.fs), p.asize, TRUE)
     ELSE /\ alloc' = [alloc EXCEPT ![p.a] = NewAllocator(p.a, t, p.size, p.fs)]
          /\ lastOp' = [NoOp EXCEPT !.op = "init", !.t = t, !.a = p.a, !.didInit = TRUE]
          /\ UNCHANGED <<slot_version, aborted, live, allocUsed, arenaUsed, freed, unbumped, sinceSnap,
                         prevFree, rt, needBump, justReclaimed>>

\* ssmem_alloc: on a null allocator it initialises it first, with the next id
\* of its tier's counter
Alloc(t, a, sizes, tiers) ==
  /\ CanAct(t)
  /\ Owner(a) = t
  /\ \E size \in sizes :
       IF alloc[a].init
       THEN /\ DoAlloc(t, a, alloc[a], size, FALSE)
            /\ UNCHANGED <<ssmem_ts_list, ssmem_ts_list_len, ssmem_ts_local, slot_id, slot_freed,
                           ssmem_num_allocators, ssmem_allocator_list, IDPM, IDDRAM,
                           cfgVars, pc, relUsed>>
       ELSE \E isPM \in tiers :
              /\ IDPM' = IF isPM THEN IDPM + 1 ELSE IDPM
              /\ IDDRAM' = IF isPM THEN IDDRAM ELSE IDDRAM + 1
              /\ InitStart(t, a, SSMEM_DEFAULT_MEM_SIZE, SSMEM_GC_FREE_SET_SIZE,
                           IF isPM THEN IDPM ELSE IDDRAM, TRUE, size)

\* ssmem_free of a pointer the client holds.  A full head without a vector
\* gets one malloc'ed first, and the rest is the next step
Free(t, a) ==
  /\ CanAct(t)
  /\ Owner(a) = t
  /\ alloc[a].init
  /\ \E obj \in live[a] :
       LET fs == Head(alloc[a].free_set_list) IN
       IF FreeSetFull(fs) /\ fs.ts_set.null
       THEN /\ pc' = [pc EXCEPT ![t] = [Idle EXCEPT !.op = "free_collect", !.a = a,
                                            !.obj = obj, !.ts_set = TsSetMalloc]]
            /\ lastOp' = [NoOp EXCEPT !.op = "step", !.t = t, !.a = a]
            /\ UNCHANGED <<regVars, cfgVars, alloc, aborted, live, allocUsed, arenaUsed, relUsed, freed,
                           unbumped, sinceSnap, prevFree, rt, needBump, justReclaimed>>
       ELSE /\ DoFree(t, a, obj, fs.ts_set)
            /\ UNCHANGED <<ssmem_ts_list, ssmem_ts_list_len, ssmem_ts_local, slot_id, slot_freed,
                           ssmem_num_allocators, ssmem_allocator_list, IDPM, IDDRAM,
                           cfgVars, pc, relUsed>>

FreeCollect(t) ==
  /\ ~aborted
  /\ pc[t].op = "free_collect"
  /\ \E words \in FreshWords(pc[t].ts_set) :
       DoFree(t, pc[t].a, pc[t].obj, WithWords(pc[t].ts_set, words))
  /\ pc' = [pc EXCEPT ![t] = Idle]
  /\ UNCHANGED <<ssmem_ts_list, ssmem_ts_list_len, ssmem_ts_local, slot_id, slot_freed,
                 ssmem_num_allocators, ssmem_allocator_list, IDPM, IDDRAM, cfgVars, relUsed>>

\* ssmem_release of an object of the client's: the record and its vector are
\* malloc'ed, and the rest is the next step
Release(t, a) ==
  /\ CanAct(t)
  /\ Owner(a) = t
  /\ alloc[a].init
  /\ relUsed < MaxReleases
  /\ pc' = [pc EXCEPT ![t] = [Idle EXCEPT !.op = "release_collect", !.a = a,
                                  !.obj = <<0, 0, relUsed + 1>>, !.ts_set = TsSetMalloc]]
  /\ relUsed' = relUsed + 1
  /\ lastOp' = [NoOp EXCEPT !.op = "step", !.t = t, !.a = a]
  /\ UNCHANGED <<regVars, cfgVars, alloc, aborted, live, allocUsed, arenaUsed, freed, unbumped,
                 sinceSnap, prevFree, rt, needBump, justReclaimed>>

ReleaseCollect(t) ==
  /\ ~aborted
  /\ pc[t].op = "release_collect"
  /\ \E words \in FreshWords(pc[t].ts_set),
        behind \in OutcomesBehindEnd(alloc[pc[t].a], pc[t].ts_set) :
     LET a == pc[t].a
         r == alloc[a]
         res == ssmem_release(r, pc[t].obj, WithWords(pc[t].ts_set, words), behind)
     IN IF WritesBehindEnd(pc[t].ts_set) \/ WalkReadsFreed
        THEN /\ aborted' = TRUE
             /\ lastOp' = [NoOp EXCEPT !.op = IF WritesBehindEnd(pc[t].ts_set)
                                              THEN "behind_end" ELSE "freed_slot",
                             !.t = t, !.a = a]
             /\ UNCHANGED <<alloc, rt, justReclaimed>>
        ELSE /\ aborted' = aborted
             /\ alloc' = [alloc EXCEPT ![a] = res.a]
             /\ rt' = [rt EXCEPT ![a] = RtOff]
             /\ justReclaimed' = [justReclaimed EXCEPT ![a] = -1]
             /\ lastOp' = [NoOp EXCEPT !.op = "release", !.t = t, !.a = a,
                             !.ranReclaim = res.ran, !.gced = res.gced,
                             !.someSame = (res.ran /\ SomeSame(res.before)),
                             !.listsChanged = ListsDiffer(res.before, res.a),
                             !.fs_size = r.fs_size,
                             !.relNewer = RelNewer(res.before),
                             !.relCut = RelCut(res.before, res.a),
                             !.relSame = RelSame(res.before, res.a),
                             !.snapped = TRUE,
                             !.snapAll = (WalkedIds(1) = RecordableIds),
                             !.readBehind = (res.ran /\ PassReadsBehind(res.before))]
  /\ pc' = [pc EXCEPT ![t] = Idle]
  /\ UNCHANGED <<regVars, cfgVars, live, allocUsed, arenaUsed, relUsed, freed, unbumped,
                 sinceSnap, prevFree, needBump>>

\* ssmem_mem_reclaim called by the client
MemReclaim(t, a) ==
  /\ CanAct(t)
  /\ Owner(a) = t
  /\ alloc[a].init
  /\ \E behind \in OutcomesBehindEnd(alloc[a], NullTs) :
     LET r == alloc[a]
         res == ssmem_mem_reclaim(r, behind)
     IN /\ alloc' = [alloc EXCEPT ![a] = res.a]
        /\ rt' = [rt EXCEPT ![a] = RtOff]
        /\ justReclaimed' = [justReclaimed EXCEPT ![a] = IF res.a # r THEN 1 ELSE 0]
        /\ lastOp' = [NoOp EXCEPT !.op = "mem_reclaim", !.t = t, !.a = a,
                        !.ranReclaim = TRUE, !.gced = res.gced,
                        !.someSame = SomeSame(r),
                        !.listsChanged = ListsDiffer(r, res.a),
                        !.changed = (res.a # r),
                        !.second = (justReclaimed[a] >= 0),
                        !.afterEffective = (justReclaimed[a] = 1),
                        !.fs_size = r.fs_size,
                        !.relNewer = RelNewer(r),
                        !.relCut = RelCut(r, res.a),
                        !.relSame = RelSame(r, res.a),
                        !.readBehind = PassReadsBehind(r)]
  /\ UNCHANGED <<regVars, cfgVars, pc, aborted, live, allocUsed, arenaUsed, relUsed, freed, unbumped,
                 sinceSnap, prevFree, needBump>>

\* ssmem_ts_next called by the client
TsNext(t) ==
  /\ CanAct(t)
  /\ ssmem_ts_local[t]
  /\ slot_version[t] < MaxVersion
  /\ IF slot_freed[t]
     THEN /\ aborted' = TRUE
          /\ lastOp' = [NoOp EXCEPT !.op = "freed_slot", !.t = t]
          /\ UNCHANGED <<slot_version, unbumped, sinceSnap, needBump>>
     ELSE /\ aborted' = aborted
          /\ slot_version' = VersionAfter(t, TRUE)
          /\ unbumped' = {pr \in unbumped : pr[2] # t}
          /\ sinceSnap' = [b \in Allocs |-> sinceSnap[b] \ {t}]
          /\ needBump' = [b \in Allocs |-> needBump[b] \ {t}]
          /\ lastOp' = [NoOp EXCEPT !.op = "ts_next", !.t = t]
  /\ UNCHANGED <<ssmem_ts_list, ssmem_ts_list_len, ssmem_ts_local, slot_id, slot_freed,
                 ssmem_num_allocators, ssmem_allocator_list, IDPM, IDDRAM, cfgVars, alloc,
                 pc, live, allocUsed, arenaUsed, relUsed, freed, prevFree, rt, justReclaimed>>

\* ssmem_alloc_term on each allocator of the set S of allocators of thread t,
\* all of them on its allocator list: the chunks, the sets and the released
\* records are given to free, the allocator leaves the thread's list, and the
\* thread's slot is given to free with the last allocator.  Neither
\* ssmem_ts_list, ssmem_ts_list_len nor ssmem_ts_local is written
Terminate(t, S, op) ==
  LET Stays(b) == b \notin S
      left == ssmem_num_allocators[t] - Cardinality(S)
  IN /\ alloc' = [b \in Allocs |-> IF b \in S THEN NullAlloc ELSE alloc[b]]
     /\ ssmem_allocator_list' = [ssmem_allocator_list EXCEPT ![t] = SelectSeq(@, Stays)]
     /\ ssmem_num_allocators' = [ssmem_num_allocators EXCEPT ![t] = left]
     /\ slot_freed' = [slot_freed EXCEPT ![t] = @ \/ left = 0]
     /\ live' = [b \in Allocs |-> IF b \in S THEN {} ELSE live[b]]
     /\ freed' = {p \in freed : p[1] \notin S}
     /\ unbumped' = {pr \in unbumped : pr[1][1] \notin S}
     /\ sinceSnap' = [b \in Allocs |-> IF b \in S THEN {} ELSE sinceSnap[b]]
     /\ needBump' = [b \in Allocs |-> IF b \in S THEN {} ELSE needBump[b]]
     /\ prevFree' = [b \in Allocs |-> IF b \in S THEN <<NoPtr, NoPtr, FALSE, FALSE>>
                                      ELSE prevFree[b]]
     /\ rt' = [b \in Allocs |-> IF b \in S THEN RtOff ELSE rt[b]]
     /\ justReclaimed' = [b \in Allocs |-> IF b \in S THEN -1 ELSE justReclaimed[b]]
     /\ lastOp' = [NoOp EXCEPT !.op = op, !.t = t]
     /\ UNCHANGED <<ssmem_ts_list, ssmem_ts_list_len, ssmem_ts_local, slot_id, slot_version,
                    IDPM, IDDRAM, cfgVars, pc, aborted, allocUsed, arenaUsed, relUsed>>

\* ssmem_alloc_term called by the client on an allocator of its thread
AllocTerm(t, a) ==
  /\ CanAct(t)
  /\ Owner(a) = t
  /\ alloc[a].init
  /\ Terminate(t, {a}, "alloc_term")

\* ssmem_term: ssmem_alloc_term on the head of the thread's allocator list
\* until the list is empty
SsmemTerm(t) ==
  /\ CanAct(t)
  /\ ssmem_allocator_list[t] # <<>>
  /\ Terminate(t, {ssmem_allocator_list[t][i] : i \in 1..Len(ssmem_allocator_list[t])}, "term")

\* One thread and its allocator: every operation of the interface
Init == InitWith({0, 1}, TsIncrPolicies, RtStart, 0)

Next ==
  \/ AllocInit(1, 1, FsSizes)
  \/ InitCAS(1)
  \/ InitFAI(1)
  \/ Alloc(1, 1, {1}, {TRUE})
  \/ Free(1, 1)
  \/ FreeCollect(1)
  \/ Release(1, 1)
  \/ ReleaseCollect(1)
  \/ MemReclaim(1, 1)
  \/ TsNext(1)

Spec == Init /\ [][Next]_vars

\* Threads side by side: thread 1 allocates and frees on allocator 1;
\* thread 2 registers, by initialising allocator 2, may initialise allocator 3
\* after it, and bumps its version
InitThreads == InitWith({0}, {"NONE", "BOTH"}, RtOff, 0)

NextThreads ==
  \/ AllocInit(1, 1, {1})
  \/ AllocInit(2, 2, {1})
  \/ AllocInitFurther(2, 3, {1})
  \/ \E t \in Threads : InitCAS(t)
  \/ \E t \in Threads : InitFAI(t)
  \/ Alloc(1, 1, {1}, {TRUE})
  \/ Free(1, 1)
  \/ FreeCollect(1)
  \/ \E t \in Threads : TsNext(t)

SpecThreads == InitThreads /\ [][NextThreads]_vars

\* One thread and its allocator of free-set capacity 1, with requests of every
\* size of AllocSizes
InitOfSizes == InitWith({0, 1}, {"NONE", "FREE"}, RtOff, 0)

NextSizes ==
  \/ AllocInit(1, 1, {1})
  \/ InitCAS(1)
  \/ InitFAI(1)
  \/ Alloc(1, 1, AllocSizes, {TRUE})
  \/ Free(1, 1)
  \/ FreeCollect(1)
  \/ TsNext(1)

SpecSizes == InitOfSizes /\ [][NextSizes]_vars

\* ------------------------------------------------------------ properties
\* C1: an allocation returns a pointer that was freed before only when every
\* thread that was registered at that free has bumped its version since
C1_ReuseAfterAllBumped ==
  (lastOp.op = "alloc" /\ lastOp.reused) => lastOp.quiesced

\* C2: ssmem_alloc never returns a pointer that is live, that is, returned by an
\* earlier ssmem_alloc and not given to ssmem_free since
C2_LiveDistinct ==
  lastOp.op = "alloc" => ~lastOp.dup
\* three live pointers out of two chunks of the arena
C2_Witness ==
  /\ lastOp.op = "alloc"
  /\ Cardinality(live[1]) = 3
  /\ Len(alloc[1].mem_chunks) >= 2

\* C3: a reclamation pass at which some registered thread had the same version
\* at the snapshot of the head free-set and at the snapshot of its successor
\* promotes nothing: it returns 0 and leaves both lists of sets as they are
C3_NoPromotionWhenSomeSame ==
  lastOp.someSame => (lastOp.gced = 0 /\ ~lastOp.listsChanged)

C5_FilledDisjoint ==
  \A a \in Allocs : alloc[a].init =>
    LET sets == alloc[a].free_set_list \o alloc[a].collected_set_list
    IN Cardinality(FilledIn(sets)) = FilledCount(sets)
\* two filled sets on the free-set list and one on the collected-set list
C5_Witness ==
  /\ alloc[1].init
  /\ Len(alloc[1].free_set_list) >= 2
  /\ alloc[1].collected_set_list # <<>>
  /\ FilledCount(alloc[1].free_set_list \o alloc[1].collected_set_list) >= 3

\* C6: once an allocator is initialised, and after every ssmem_alloc,
\* ssmem_free, ssmem_release and ssmem_mem_reclaim on it, free_set_num is the
\* length of the free-set list and collected_set_num that of the collected list
C6_CountsAreLengths ==
  \A a \in Allocs : alloc[a].init =>
    /\ alloc[a].free_set_num = Len(alloc[a].free_set_list)
    /\ alloc[a].collected_set_num = Len(alloc[a].collected_set_list)
\* a pass has promoted a set, and the allocator holds a released record too
C6_Witness ==
  /\ alloc[1].init
  /\ lastOp.gced >= 1
  /\ alloc[1].collected_set_num >= 1
  /\ alloc[1].free_set_num = 2
  /\ alloc[1].released_num >= 1

C9_ReclaimIdempotent ==
  (lastOp.op = "mem_reclaim" /\ lastOp.second) => (lastOp.gced = 0 /\ ~lastOp.changed)
\* the second call after a first call that did reclaim
C9_Witness ==
  /\ lastOp.op = "mem_reclaim"
  /\ lastOp.second
  /\ lastOp.afterEffective

\* C10: the version of a thread that has its slot never decreases; a step
\* changes it only by adding 1, and only a step of that thread that is a
\* ssmem_ts_next, a ssmem_alloc or a ssmem_free.  No initialisation of a further
\* allocator, no snapshot, no reclamation and no release changes it
C10_VersionOwnerBumps ==
  [][\A t \in Threads : ssmem_ts_local[t] =>
       \/ slot_version'[t] = slot_version[t]
       \/ /\ slot_version'[t] = slot_version[t] + 1
          /\ lastOp'.t = t
          /\ lastOp'.op \in {"ts_next", "alloc", "free"}]_vars
\* thread 2, bumped, has initialised a second allocator; thread 1, bumped, has
\* snapshotted and reclaimed
C10_Witness ==
  /\ lastOp.op = "init"
  /\ lastOp.t = 2
  /\ ssmem_num_allocators[2] = 2
  /\ slot_version[2] >= 1
  /\ slot_version[1] >= 1
  /\ Len(alloc[1].free_set_list) >= 2

\* Thread 1 releases objects on allocator 1 and runs reclamation passes, while
\* thread 2 registers and both bump their versions
InitRelease == InitWith({0}, {"NONE"}, RtOff, 0)

NextRelease ==
  \/ AllocInit(1, 1, {1})
  \/ AllocInit(2, 2, {1})
  \/ \E t \in Threads : InitCAS(t)
  \/ \E t \in Threads : InitFAI(t)
  \/ Release(1, 1)
  \/ ReleaseCollect(1)
  \/ MemReclaim(1, 1)
  \/ \E t \in Threads : TsNext(t)

SpecRelease == InitRelease /\ [][NextRelease]_vars

\* One thread and its allocator of free-set capacity 2, with the allocations
\* it takes to fill three free-sets and take the promoted pointers back
InitPop == InitWith({0}, {"NONE"}, RtOff, 3)

NextPop ==
  \/ AllocInit(1, 1, {MaxFsSize})
  \/ InitCAS(1)
  \/ InitFAI(1)
  \/ Alloc(1, 1, {1}, {TRUE})
  \/ Free(1, 1)
  \/ FreeCollect(1)
  \/ TsNext(1)

SpecPop == InitPop /\ [][NextPop]_vars

\* Lazy initialisation: thread 1 calls ssmem_alloc on its null allocator 1,
\* thread 2 on its null allocators 2 and 3, each in either tier
InitLazy == InitWith({0}, {"NONE"}, RtOff, 0)

NextLazy ==
  \/ Alloc(1, 1, {1}, BOOLEAN)
  \/ Alloc(2, 2, {1}, BOOLEAN)
  \/ Alloc(2, 3, {1}, BOOLEAN)
  \/ \E t \in Threads : InitCAS(t)
  \/ \E t \in Threads : InitFAI(t)
  \/ \E t \in Threads : TsNext(t)

SpecLazy == InitLazy /\ [][NextLazy]_vars

\* Termination: thread 1 allocates and frees on allocator 1; thread 2
\* initialises allocators 2 and 3, bumps its version and terminates the
\* allocators, one by one or all at once
InitTerm == InitWith({0}, {"NONE"}, RtOff, 0)

NextTerm ==
  \/ AllocInit(1, 1, {1})
  \/ AllocInit(2, 2, {1})
  \/ AllocInitFurther(2, 3, {1})
  \/ \E t \in Threads : InitCAS(t)
  \/ \E t \in Threads : InitFAI(t)
  \/ Alloc(1, 1, {1}, {TRUE})
  \/ Free(1, 1)
  \/ FreeCollect(1)
  \/ \E a \in {2, 3} : AllocTerm(2, a)
  \/ SsmemTerm(2)
  \/ TsNext(2)

SpecTerm == InitTerm /\ [][NextTerm]_vars

\* Reuse of containers while the registry grows: thread 1 allocates and frees
\* on allocator 1, of free-set capacity 1, and bumps its version once; thread 2
\* registers
FirstTsNext(t) == slot_version[t] = 0 /\ TsNext(t)

InitReuse == InitWith({0}, {"NONE"}, RtOff, 1)

NextReuse ==
  \/ AllocInit(1, 1, {1})
  \/ AllocInit(2, 2, {1})
  \/ \E t \in Threads : InitCAS(t)
  \/ \E t \in Threads : InitFAI(t)
  \/ Alloc(1, 1, {1}, {TRUE})
  \/ Free(1, 1)
  \/ FreeCollect(1)
  \/ FirstTsNext(1)

SpecReuse == InitReuse /\ [][NextReuse]_vars

\* the sizes of the chunks of a chunk list, added up
RECURSIVE SumSizes(_)
SumSizes(chunks) ==
  IF chunks = <<>> THEN 0 ELSE Head(chunks).size + SumSizes(Tail(chunks))

\* C11: once an allocator is initialised, and after every ssmem_alloc on it,
\* mem_curr is at most mem_size, mem_size is the size of the current chunk, and
\* tot_size is the sum of the sizes of the chunks of the chunk list
C11_ArenaAccounts ==
  \A a \in Allocs : alloc[a].init =>
    /\ alloc[a].mem_curr <= alloc[a].mem_size
    /\ alloc[a].tot_size = SumSizes(alloc[a].mem_chunks)
    /\ (lastOp.op \in {"init", "alloc"} /\ lastOp.a = a)
         => alloc[a].mem_size = Head(alloc[a].mem_chunks).size
\* a request above the current chunk's size has brought a third chunk
C11_Witness ==
  /\ lastOp.op = "alloc"
  /\ lastOp.size = 3
  /\ Len(alloc[1].mem_chunks) = 3
  /\ alloc[1].mem_curr = 3
  /\ alloc[1].tot_size > 2 * SSMEM_DEFAULT_MEM_SIZE

\* C12: a ssmem_alloc that returns a pointer was asked for a size of at most
\* SSMEM_MEM_SIZE_MAX: a request above it ends the run, whatever the arena and
\* the collected-set list hold
C12_TooLargeAborts ==
  lastOp.op = "alloc" => lastOp.size <= SSMEM_MEM_SIZE_MAX

C14_CollectedPop ==
  (lastOp.op = "alloc" /\ lastOp.fromCollected) =>
    /\ lastOp.popLast
    /\ lastOp.popFrame
    /\ IF lastOp.popEmptied THEN lastOp.popUnlinked ELSE lastOp.popKept
\* the second pointer of a collected set of two has been taken: the set is on
\* the available list
C14_Witness ==
  /\ lastOp.op = "alloc"
  /\ lastOp.fromCollected
  /\ lastOp.popEmptied
  /\ lastOp.fs_size = 2
  /\ alloc[1].available_set_list # <<>>
  /\ alloc[1].collected_set_list = <<>>

\* C15: a snapshot taken by ssmem_free or ssmem_release, also while a thread is
\* registering, records every slot of the registry whose id is below the
\* registry length: a slot at the head whose id is not below the length is
\* passed over, and the slots behind it are recorded
C15_SnapshotSkipsNewSlots ==
  lastOp.snapped => lastOp.snapAll

\* C16: a reclamation pass that compares a snapshot with an older one, taken
\* when the registry was shorter, reads the older vector only below the length
\* it was taken with
C16_ComparesWithinOlder ==
  lastOp.ranReclaim => ~lastOp.readBehind

\* no registration is in flight
RegistryQuiet == \A t \in Threads : pc[t].op \notin {"init_cas", "init_fai"}
\* the ids of the slots of the registry, one per position of the list
SlotIds == [i \in 1..Len(ssmem_ts_list) |-> slot_id[ssmem_ts_list[i]]]

\* C17: with no registration in flight, the ids of the slots of the registry
\* are pairwise distinct and are the values 0..ssmem_ts_list_len-1
C17_IdsDense ==
  RegistryQuiet =>
    /\ \A i, j \in 1..Len(SlotIds) : i # j => SlotIds[i] # SlotIds[j]
    /\ {SlotIds[i] : i \in 1..Len(SlotIds)} = 0..(ssmem_ts_list_len - 1)

\* C18: with no registration in flight, every thread that has initialised an
\* allocator has exactly one slot in the list that starts at ssmem_ts_list, be
\* it the thread of one allocator or of several, and ssmem_ts_list_len is the
\* number of these threads
C18_NoSlotLost ==
  RegistryQuiet =>
    /\ \A t \in Threads :
         Cardinality({i \in 1..Len(ssmem_ts_list) : ssmem_ts_list[i] = t})
           = IF ssmem_num_allocators[t] > 0 THEN 1 ELSE 0
    /\ ssmem_ts_list_len = Cardinality({t \in Threads : ssmem_num_allocators[t] > 0})
\* both threads are registered, thread 1 in front of thread 2, and thread 2
\* has initialised its two allocators
C18_Witness ==
  /\ RegistryQuiet
  /\ ssmem_ts_list = <<1, 2>>
  /\ ssmem_num_allocators[2] = 2
  /\ alloc[1].init

\* C19: every set of the free-set list of an allocator has a snapshot exactly
\* when it is full; a set that still takes pointers has none, also when its
\* container comes from the available list
C19_SnapshotIffFull ==
  \A a \in Allocs : alloc[a].init =>
    \A k \in 1..Len(alloc[a].free_set_list) :
      LET fs == alloc[a].free_set_list[k] IN
      (~fs.ts_set.null) <=> (fs.curr = fs.size)

\* C20: ssmem_alloc_term on the last allocator of a thread, and ssmem_term,
\* give the thread's slot to free and, the slot being the head of the registry,
\* take it off the registry: ssmem_ts_list never starts at a freed slot
C20_HeadNeverFreed ==
  /\ (lastOp.op \in {"alloc_term", "term"} /\ ssmem_num_allocators[lastOp.t] = 0)
       => slot_freed[lastOp.t]
  /\ ssmem_ts_list # <<>> => ~slot_freed[Head(ssmem_ts_list)]

\* C21: no snapshot taken by ssmem_free or ssmem_release writes at an index
\* that is not below the length its vector was malloc'ed with, be the vector
\* fresh or the one a reused container has kept, and be a thread registering
\* or not
C21_WritesWithinVector ==
  lastOp.op # "behind_end"
====
